---- MODULE Spec2Model ----
(***************************************************************************)
(* TinyShell (tinyshell_final.c): the job table, the pipeline builder, the *)
(* SIGCHLD reaper, the foreground controller and the fg/bg built-ins, as a *)
(* state machine.  The main flow is one sequential process with a program  *)
(* counter; the reaper interrupts it between any two of its steps whenever *)
(* SIGCHLD is not blocked; every forked child is a process of its own.     *)
(* A run starts at the entry of main and lasts while the shell lives: exit  *)
(* and end of input are left out.                                          *)
(***************************************************************************)
EXTENDS Integers, Sequences, FiniteSets, TLC

(* ------------------------------ bounds --------------------------------- *)

\* capacity of the job table (the program uses 16; scaled down so that a
\* full table is reached)
MAX_JOBS == 2

\* number of children the shell forks over one run
MaxPid == 2

\* longest pipeline the user types
MaxStages == 2

\* number of pipe()/fork() failures the operating system injects in one run
MaxFail == 1

(* ------------------------- program constants --------------------------- *)

UNDEF == 0
FG == 1
BG == 2
ST == 3

STDIN_FILENO == 0

\* first descriptor number pipe() can return (0, 1, 2 are the standard streams)
FirstFd == 3

\* the shell's pid, which is also its process group (main, setpgid)
ShellPid == 1

\* job_t *job == NULL
NULL == 0

Slots == 1..MAX_JOBS
Pids == (ShellPid + 1)..(ShellPid + MaxPid)

(* ------------------------------- atoi ---------------------------------- *)

DigitVal(c) ==
    CASE c = "0" -> 0 [] c = "1" -> 1 [] c = "2" -> 2 [] c = "3" -> 3
      [] c = "4" -> 4 [] c = "5" -> 5 [] OTHER -> -1

RECURSIVE AtoiDigits(_, _)
AtoiDigits(s, acc) ==
    IF s = <<>> \/ DigitVal(Head(s)) < 0 THEN acc
    ELSE AtoiDigits(Tail(s), 10 * acc + DigitVal(Head(s)))

\* atoi: optional sign, then the leading decimal digits; 0 when there are none
Atoi(s) ==
    IF s # <<>> /\ Head(s) = "-" THEN 0 - AtoiDigits(Tail(s), 0)
    ELSE AtoiDigits(s, 0)

\* the texts the user types after fg / bg (a leading "%" selects a jid)
ArgTexts ==
    { <<"0">>, <<"2">>, <<"3">>, <<"x">>, <<"-", "1">>, <<"1", "0">>,
      <<"%">>, <<"%", "0">>, <<"%", "1">>, <<"%", "2">>, <<"%", "1", "x">> }

(* ---------------------------- job table -------------------------------- *)

clearjob == [pid |-> 0, jid |-> 0, state |-> UNDEF]

\* the slots, in array order, that satisfy a test; the C loops return the
\* first one
FirstSlot(S) == IF S = {} THEN NULL ELSE CHOOSE s \in S : \A t \in S : s <= t

getjobpid(jt, p) == FirstSlot({s \in Slots : jt[s].pid = p})

getjobjid(jt, j) == FirstSlot({s \in Slots : jt[s].jid = j})

pid2jid(jt, p) ==
    IF getjobpid(jt, p) = NULL THEN 0 ELSE jt[getjobpid(jt, p)].jid

\* the slot addjob fills, NULL when it returns 0
AddSlot(jt, p) == IF p < 1 THEN NULL ELSE getjobpid(jt, 0)

AssignJid_slot(njid, s) == s

\* jobs[i].jid = next_jid
AssignJid(njid, s) == njid

BumpJid_stuck(njid) == njid

\* next_jid++
BumpJid(njid) == njid + 1

addjob(jt, njid, p, st) ==
    IF AddSlot(jt, p) = NULL THEN jt
    ELSE [jt EXCEPT ![AddSlot(jt, p)] =
             [pid |-> p, jid |-> AssignJid(njid, AddSlot(jt, p)), state |-> st]]

deletejob(jt, p) ==
    IF p < 1 \/ getjobpid(jt, p) = NULL THEN jt
    ELSE [jt EXCEPT ![getjobpid(jt, p)] = clearjob]

(* ------------------------------- state --------------------------------- *)

VARIABLES
    jobs,              \* struct job_t jobs[MAX_JOBS]
    next_jid,          \* int next_jid
    tty,               \* foreground process group of the controlling terminal
    blocked,           \* SIGCHLD is in the shell's signal mask
    pc,                \* the main flow's position
    cmd,               \* argv[0] of the built-in being run ("fg", "bg", "")
    bg,                \* process_pipeline: bg
    cmd_count,         \* process_pipeline: cmd_count
    i,                 \* process_pipeline: i
    group_leader_pid,  \* process_pipeline: group_leader_pid
    pid,               \* process_pipeline: pid (result of the last fork)
    prev,              \* process_pipeline: prev (the saved signal mask)
    prev_pipe_read,    \* process_pipeline: prev_pipe_read
    pipefd,            \* process_pipeline: pipefd[0], pipefd[1]
    openfds,           \* pipe descriptors open in the shell process
    job,               \* do_bgfg: job (a slot, or NULL)
    wpid,              \* waitfg: pid
    wjob,              \* waitfg: job (a slot, or NULL)
    proc,              \* the children: state, process group, copied locals
    nextpid,           \* the pid the next fork returns
    fails,             \* pipe()/fork() failures injected so far
    out,               \* the line the main flow printed for the last command:
                       \*   <<kind, jid, pid>>, the numbers for a job line
    sigcont,           \* groups the last command sent SIGCONT to
    jids,              \* history: the jid of every successful addjob, in order
    firstpid,          \* history: pid of stage 0 of the pipeline being built
    added,             \* history: the jid addjob gave the job of this launch,
                       \*   0 when it added none
    early,             \* history: the leader of the job this launch added
                       \*   had terminated or stopped before addjob ran
    speclive,          \* history: did the argument of the fg/bg just looked
                       \*   up name a live job ("", "yes", "no")
    spgrp,             \* the process group the shell is in
    sigttou,           \* the shell's disposition for SIGTTOU ("dfl", "ign")
    tmodes,            \* the terminal's line-discipline modes
    shell_tmodes,      \* struct termios shell_tmodes
    target             \* history: the pgid of the live Stopped job that the
                       \*   fg/bg being run was applied to, else 0

table == <<jobs, next_jid>>
locals == <<cmd, bg, cmd_count, i, group_leader_pid, pid, prev,
            prev_pipe_read, pipefd, job, wpid, wjob, firstpid, added, early,
            target>>
kernel == <<proc, nextpid, fails, openfds>>
term == <<spgrp, sigttou, tmodes, shell_tmodes>>
hist == <<jids, speclive>>
vars == <<jobs, next_jid, tty, blocked, pc, cmd, bg, cmd_count, i,
          group_leader_pid, pid, prev, prev_pipe_read, pipefd, openfds, job,
          wpid, wjob, proc, nextpid, fails, out, sigcont, jids, firstpid,
          added, early, speclive, target, spgrp, sigttou, tmodes,
          shell_tmodes>>

\* a child: its state, its process group, its copies of group_leader_pid, i
\* and bg (gone once it has execed), whether its stop was reported to
\* waitpid; history: the first child of its pipeline, whether addjob
\* registered it as a job
noproc == [st |-> "none", pgid |-> 0, glp |-> 0, stage |-> 0, bg |-> FALSE,
           rep |-> FALSE, first |-> 0, reg |-> FALSE]

NoOut == <<"", 0, 0>>

\* int next_jid = 1
InitNextJid == 1

\* the process group of the program that started the shell
ParentPgid == ShellPid - 1

\* the state at the entry of main: the globals are zeroed (a zeroed slot is
\* a cleared slot), no handler is installed; the shell is the leader of its
\* own process group or a member of its parent's, and the terminal's
\* foreground group is the shell's group or the parent's
Init ==
    /\ jobs = [s \in Slots |-> clearjob]
    /\ next_jid = InitNextJid
    /\ spgrp \in {ShellPid, ParentPgid}
    /\ tty \in {spgrp, ParentPgid}
    /\ sigttou = "dfl"
    /\ tmodes = "cooked"
    /\ shell_tmodes = "unset"
    /\ blocked = FALSE
    /\ pc = "boot_fg"
    /\ cmd = ""
    /\ bg = FALSE
    /\ cmd_count = 0
    /\ i = 0
    /\ group_leader_pid = 0
    /\ pid = 0
    /\ prev = FALSE
    /\ prev_pipe_read = STDIN_FILENO
    /\ pipefd = <<0, 0>>
    /\ openfds = {}
    /\ job = NULL
    /\ wpid = 0
    /\ wjob = NULL
    /\ proc = [p \in Pids |-> noproc]
    /\ nextpid = ShellPid + 1
    /\ fails = 0
    /\ out = NoOut
    /\ sigcont = <<>>
    /\ jids = <<>>
    /\ firstpid = 0
    /\ added = 0
    /\ early = FALSE
    /\ speclive = ""
    /\ target = 0

(* ------------------------------ kernel --------------------------------- *)

Alive(p) == proc[p].st \notin {"none", "reaped"}

\* a process group exists while a process that was not reaped is in it
GroupExists(g) == g = ShellPid \/ \E p \in Pids : Alive(p) /\ proc[p].pgid = g

\* tcsetpgrp(shell_terminal, g): fails for a group that does not exist
tcsetpgrp(cur, g) == IF g > 0 /\ GroupExists(g) THEN g ELSE cur

NotExeced == {"c_setpgid", "c_exec"}

\* setpgid(pid, g) called by the parent: EACCES once the child has execed,
\* ESRCH/EPERM when the child or the group is gone
parent_setpgid(p, g) ==
    IF proc[p].st \in NotExeced /\ (g = p \/ GroupExists(g)) THEN g
    ELSE proc[p].pgid

child_setpgid_skip(p) == proc[p].pgid

\* setpgid(0, (i == 0) ? 0 : group_leader_pid) called by the child
child_setpgid(p) ==
    LET g == IF proc[p].stage = 0 \/ proc[p].glp = 0 THEN p ELSE proc[p].glp
    IN  IF g = p \/ GroupExists(g) THEN g ELSE proc[p].pgid

\* kill(-g, SIGCONT); kill(0, ...) addresses the caller's own group
ContGroup(g) ==
    LET grp == IF g = 0 THEN ShellPid ELSE g
    IN  [p \in Pids |->
            IF proc[p].st = "stopped" /\ proc[p].pgid = grp
            THEN [proc[p] EXCEPT !.st = "running", !.rep = FALSE]
            ELSE proc[p]]

\* pipe(): the two lowest descriptors that are not open
LowestFree(used) == CHOOSE n \in FirstFd..(FirstFd + Cardinality(used)) :
                        /\ n \notin used
                        /\ \A m \in FirstFd..(n - 1) : m \in used

(* ----------------------------- children -------------------------------- *)

\* lines 194-195
ChildSetpgid(p) ==
    /\ proc[p].st = "c_setpgid"
    /\ proc' = [proc EXCEPT ![p].pgid = child_setpgid(p), ![p].st = "c_exec"]
    /\ UNCHANGED <<term, table, tty, blocked, pc, locals, nextpid, fails,
                   openfds, out, sigcont, hist>>

\* lines 197-214 and parse_and_execute_stage: the first stage of a
\* foreground pipeline takes the terminal; then wiring and execvp
ChildExec(p) ==
    /\ proc[p].st = "c_exec"
    /\ tty' = IF ~proc[p].bg /\ proc[p].stage = 0 THEN tcsetpgrp(tty, p)
              ELSE tty
    /\ proc' = [proc EXCEPT ![p].st = "running", ![p].glp = 0,
                            ![p].stage = 0, ![p].bg = FALSE]
    /\ UNCHANGED <<term, table, blocked, pc, locals, nextpid, fails, openfds,
                   out, sigcont, hist>>

\* the program exits or is killed by a signal
ChildTerminate(p) ==
    /\ proc[p].st \in {"running", "stopped"}
    /\ proc' = [proc EXCEPT ![p].st = "zombie", ![p].rep = FALSE]
    /\ UNCHANGED <<term, table, tty, blocked, pc, locals, nextpid, fails,
                   openfds, out, sigcont, hist>>

\* the program is stopped (SIGTSTP from the terminal, SIGSTOP, SIGTTIN)
ChildStop(p) ==
    /\ proc[p].st = "running"
    /\ proc' = [proc EXCEPT ![p].st = "stopped", ![p].rep = FALSE]
    /\ UNCHANGED <<term, table, tty, blocked, pc, locals, nextpid, fails,
                   openfds, out, sigcont, hist>>

\* the program sets the terminal's modes (an editor, a pager, stty): it
\* runs in the terminal's foreground group
ChildTcsetattr(p) ==
    /\ proc[p].st = "running"
    /\ proc[p].pgid = tty
    /\ tmodes = shell_tmodes
    /\ tmodes' = "raw"
    /\ UNCHANGED <<spgrp, sigttou, shell_tmodes, table, tty, blocked, pc,
                   locals, kernel, out, sigcont, hist>>

(* ------------------------------ reaper --------------------------------- *)

Zombies == {p \in Pids : proc[p].st = "zombie"}
NewStops == {p \in Pids : proc[p].st = "stopped" /\ ~proc[p].rep}

MinOf(S) == CHOOSE x \in S : \A y \in S : x <= y

\* the loop deletes the job on every event, a stop included
ReapOne_any(jt, p) == deletejob(jt, p)

\* the loop takes every event for a stop
ReapOne_stop(jt, p) ==
    IF getjobpid(jt, p) = NULL THEN jt
    ELSE [jt EXCEPT ![getjobpid(jt, p)].state = ST]

\* one iteration of the waitpid loop for the child p
ReapOne(jt, p) ==
    IF proc[p].st = "zombie" THEN deletejob(jt, p)
    ELSE IF getjobpid(jt, p) = NULL THEN jt
    ELSE [jt EXCEPT ![getjobpid(jt, p)].state = ST]

RECURSIVE ReapAll(_, _)
ReapAll(jt, S) ==
    IF S = {} THEN jt ELSE ReapAll(ReapOne(jt, MinOf(S)), S \ {MinOf(S)})

Building == pc \in {"pp_pipe", "pp_fork", "pp_parent", "pp_addjob"}

\* sigchld_handler: delivered only while SIGCHLD is not blocked; it reaps
\* every child that has terminated or stopped, then returns
sigchld_handler ==
    /\ ~blocked
    /\ Zombies \cup NewStops # {}
    /\ jobs' = ReapAll(jobs, Zombies \cup NewStops)
    /\ proc' = [p \in Pids |->
                   IF p \in Zombies THEN [noproc EXCEPT !.st = "reaped"]
                   ELSE IF p \in NewStops THEN [proc[p] EXCEPT !.rep = TRUE]
                   ELSE proc[p]]
    /\ UNCHANGED <<term, next_jid, tty, blocked, pc, locals, nextpid, fails,
                   openfds, out, sigcont, hist>>

(* ----------------------------- bootstrap ------------------------------- *)

\* lines 76-77, the shell is not in the foreground: kill(-shell_pgid,
\* SIGTTIN) stops it
BootStopped ==
    /\ pc = "boot_fg"
    /\ tty # spgrp
    /\ pc' = "boot_ttin"
    /\ UNCHANGED <<term, table, tty, blocked, locals, kernel, out, sigcont,
                   hist>>

\* lines 76-79, the shell is in the foreground: the loop ends
BootForeground ==
    /\ pc = "boot_fg"
    /\ tty = spgrp
    /\ pc' = "boot_setpgid"
    /\ UNCHANGED <<term, table, tty, blocked, locals, kernel, out, sigcont,
                   hist>>

\* the program that started the shell puts the stopped shell's group in
\* the foreground and continues it; the interrupted call is made again
Continued ==
    /\ pc \in {"boot_ttin", "boot_ttou"}
    /\ tty' = spgrp
    /\ pc' = IF pc = "boot_ttin" THEN "boot_fg" ELSE "boot_tcset"
    /\ UNCHANGED <<term, table, blocked, locals, kernel, out, sigcont, hist>>

\* lines 79-83: setpgid(shell_pgid, shell_pgid) succeeds; where it fails the
\* shell exits at line 82 and the run is over
BootSetpgid ==
    /\ pc = "boot_setpgid"
    /\ spgrp' = ShellPid
    /\ pc' = "boot_tcset"
    /\ UNCHANGED <<sigttou, tmodes, shell_tmodes, table, tty, blocked, locals,
                   kernel, out, sigcont, hist>>

\* a member of a background group that calls tcsetpgrp is sent SIGTTOU,
\* which stops it unless the signal is ignored
StoppedByTtou == tty # spgrp /\ sigttou = "dfl"

\* line 84: tcsetpgrp(shell_terminal, shell_pgid)
BootTcsetpgrp ==
    /\ pc = "boot_tcset"
    /\ tty' = IF StoppedByTtou THEN tty ELSE tcsetpgrp(tty, ShellPid)
    /\ pc' = IF StoppedByTtou THEN "boot_ttou" ELSE "boot_attr"
    /\ UNCHANGED <<term, table, blocked, locals, kernel, out, sigcont, hist>>

\* line 85: tcgetattr(shell_terminal, &shell_tmodes)
BootTcgetattr ==
    /\ pc = "boot_attr"
    /\ shell_tmodes' = tmodes
    /\ pc' = "boot_install"
    /\ UNCHANGED <<spgrp, sigttou, tmodes, table, tty, blocked, locals, kernel,
                   out, sigcont, hist>>

\* lines 87-94: initjobs and the signal dispositions; SIGTTOU is ignored
\* from line 94 on
BootInstall ==
    /\ pc = "boot_install"
    /\ jobs' = [s \in Slots |-> clearjob]
    /\ sigttou' = "ign"
    /\ pc' = "prompt"
    /\ UNCHANGED <<spgrp, tmodes, shell_tmodes, next_jid, tty, blocked, locals,
                   kernel, out, sigcont, hist>>

(* ----------------------------- main flow ------------------------------- *)

\* the locals of a function that has returned are dead
ResetLocals ==
    /\ cmd' = ""
    /\ bg' = FALSE
    /\ cmd_count' = 0
    /\ i' = 0
    /\ group_leader_pid' = 0
    /\ pid' = 0
    /\ prev' = FALSE
    /\ prev_pipe_read' = STDIN_FILENO
    /\ pipefd' = <<0, 0>>
    /\ job' = NULL
    /\ wpid' = 0
    /\ wjob' = NULL
    /\ firstpid' = 0
    /\ added' = 0
    /\ early' = FALSE
    /\ target' = 0

Return == pc' = "prompt" /\ ResetLocals

\* main, lines 98-99: printf("tsh> "); the next command's record starts
Prompt ==
    /\ pc = "prompt"
    /\ pc' = "read"
    /\ out' = NoOut
    /\ sigcont' = <<>>
    /\ speclive' = ""
    /\ UNCHANGED <<term, table, tty, blocked, locals, kernel, jids>>

\* eval, line 131: a line without a word
EvalEmpty ==
    /\ pc = "read"
    /\ Return
    /\ UNCHANGED <<term, table, tty, blocked, kernel, out, sigcont, hist>>

\* eval, line 135: jobs
EvalJobs ==
    /\ pc = "read"
    /\ out' = <<"jobs", 0, 0>>
    /\ Return
    /\ UNCHANGED <<term, table, tty, blocked, kernel, sigcont, hist>>

block_noop(m) == m

\* sigprocmask(SIG_BLOCK, {SIGCHLD}, &prev): the mask afterwards
block(m) == TRUE

\* eval and process_pipeline, lines 101-183: a pipeline of n stages is read
\* and split, SIGCHLD is blocked and the old mask saved.  A line made of
\* "|" only has no stage and cannot carry the trailing "&".
EvalLaunch(n, b) ==
    /\ pc = "read"
    /\ n = 0 => ~b
    /\ nextpid + n - 1 <= ShellPid + MaxPid
    /\ bg' = b
    /\ cmd_count' = n
    /\ i' = 0
    /\ prev_pipe_read' = STDIN_FILENO
    /\ group_leader_pid' = 0
    /\ prev' = blocked
    /\ blocked' = block(blocked)
    /\ pc' = IF 0 < n THEN "pp_fork" ELSE "pp_addjob"
    /\ UNCHANGED <<term, table, tty, cmd, pid, pipefd, job, wpid, wjob,
                   firstpid, added, early, target, kernel, out, sigcont, hist>>

NeedsPipe == i < cmd_count - 1

\* line 187: pipe() fails; process_pipeline returns
PipeFail ==
    /\ pc = "pp_fork"
    /\ NeedsPipe
    /\ fails < MaxFail
    /\ fails' = fails + 1
    /\ out' = <<"pipe", 0, 0>>
    /\ Return
    /\ UNCHANGED <<term, table, tty, blocked, proc, nextpid, openfds, sigcont,
                   hist>>

PipeR == LowestFree(openfds)
PipeW == LowestFree(openfds \cup {PipeR})
AfterPipe == IF NeedsPipe THEN openfds \cup {PipeR, PipeW} ELSE openfds

\* lines 186-191: pipe() succeeds where one is needed, fork() fails;
\* process_pipeline returns
ForkFail ==
    /\ pc = "pp_fork"
    /\ fails < MaxFail
    /\ fails' = fails + 1
    /\ openfds' = AfterPipe
    /\ out' = <<"fork", 0, 0>>
    /\ Return
    /\ UNCHANGED <<term, table, tty, blocked, proc, nextpid, sigcont, hist>>

\* lines 186-190: pipe() succeeds where one is needed, fork() returns the
\* child's pid; the child starts with copies of i, bg and group_leader_pid
\* and in its parent's process group
Fork ==
    /\ pc = "pp_fork"
    /\ nextpid \in Pids
    /\ openfds' = AfterPipe
    /\ pipefd' = IF NeedsPipe THEN <<PipeR, PipeW>> ELSE pipefd
    /\ pid' = nextpid
    /\ firstpid' = IF i = 0 THEN nextpid ELSE firstpid
    /\ proc' = [proc EXCEPT ![nextpid] =
                   [st |-> "c_setpgid", pgid |-> ShellPid,
                    glp |-> group_leader_pid, stage |-> i, bg |-> bg,
                    rep |-> FALSE,
                    first |-> IF i = 0 THEN nextpid ELSE firstpid,
                    reg |-> FALSE]]
    /\ nextpid' = nextpid + 1
    /\ pc' = "pp_parent"
    /\ UNCHANGED <<term, table, tty, blocked, cmd, bg, cmd_count, i,
                   group_leader_pid, prev, prev_pipe_read, job, wpid, wjob,
                   added, early, target, fails, out, sigcont, hist>>

\* lines 219-227: the parent's half of an iteration
Parent ==
    /\ pc = "pp_parent"
    /\ LET glp == IF i = 0 THEN pid ELSE group_leader_pid
       IN  /\ group_leader_pid' = glp
           /\ proc' = [proc EXCEPT ![pid].pgid = parent_setpgid(pid, glp)]
    /\ openfds' = (openfds \ (IF prev_pipe_read # STDIN_FILENO
                              THEN {prev_pipe_read} ELSE {}))
                          \ (IF NeedsPipe THEN {pipefd[2]} ELSE {})
    /\ prev_pipe_read' = IF NeedsPipe THEN pipefd[1] ELSE prev_pipe_read
    /\ i' = i + 1
    /\ pc' = IF i + 1 < cmd_count THEN "pp_fork" ELSE "pp_addjob"
    /\ UNCHANGED <<term, table, tty, blocked, cmd, bg, cmd_count, pid, prev,
                   pipefd, job, wpid, wjob, firstpid, added, early, target,
                   nextpid, fails, out, sigcont, hist>>

\* lines 229-233: addjob, the saved mask is restored, and a foreground
\* launch calls waitfg(group_leader_pid)
Addjob ==
    /\ pc = "pp_addjob"
    /\ jobs' = addjob(jobs, next_jid, group_leader_pid, IF bg THEN BG ELSE FG)
    /\ next_jid' = IF AddSlot(jobs, group_leader_pid) = NULL THEN next_jid
                   ELSE BumpJid(next_jid)
    /\ jids' = IF AddSlot(jobs, group_leader_pid) = NULL THEN jids
               ELSE Append(jids,
                      AssignJid(next_jid, AddSlot(jobs, group_leader_pid)))
    /\ proc' = IF AddSlot(jobs, group_leader_pid) = NULL THEN proc
               ELSE [proc EXCEPT ![group_leader_pid].reg = TRUE]
    /\ blocked' = prev
    /\ wpid' = IF bg THEN wpid ELSE group_leader_pid
    /\ pc' = IF bg THEN "pp_print" ELSE "wf_tcset"
    /\ added' = IF AddSlot(jobs, group_leader_pid) = NULL THEN 0
                ELSE AssignJid(next_jid, AddSlot(jobs, group_leader_pid))
    /\ early' = /\ AddSlot(jobs, group_leader_pid) # NULL
                 /\ group_leader_pid \in Zombies \cup NewStops
    /\ UNCHANGED <<term, tty, cmd, bg, cmd_count, i, group_leader_pid, pid,
                   prev, prev_pipe_read, pipefd, job, wjob, firstpid, target,
                   nextpid, fails, openfds, out, sigcont, speclive>>

\* line 235: printf("[%d] (%d) %s\n", pid2jid(group_leader_pid), ...)
PrintLaunch ==
    /\ pc = "pp_print"
    /\ out' = <<"launch", pid2jid(jobs, group_leader_pid), group_leader_pid>>
    /\ Return
    /\ UNCHANGED <<term, table, tty, blocked, kernel, sigcont, hist>>

(* ------------------------------ waitfg --------------------------------- *)

\* line 300: tcsetpgrp(shell_terminal, pid)
WaitfgTcsetpgrp ==
    /\ pc = "wf_tcset"
    /\ tty' = tcsetpgrp(tty, wpid)
    /\ pc' = "wf_lookup"
    /\ UNCHANGED <<term, table, blocked, locals, kernel, out, sigcont, hist>>

\* line 302: job = getjobpid(jobs, pid)
WaitfgLookup ==
    /\ pc = "wf_lookup"
    /\ wjob' = getjobpid(jobs, wpid)
    /\ pc' = "wf_loop"
    /\ UNCHANGED <<term, table, tty, blocked, cmd, bg, cmd_count, i,
                   group_leader_pid, pid, prev, prev_pipe_read, pipefd, job,
                   wpid, firstpid, added, early, target, kernel, out, sigcont,
                   hist>>

\* line 303: job != NULL && job->pid == pid && job->state == FG
WaitfgCond == wjob # NULL /\ jobs[wjob].pid = wpid /\ jobs[wjob].state = FG

\* line 303, the test holds: enter sleep(1)
WaitfgTest ==
    /\ pc = "wf_loop"
    /\ WaitfgCond
    /\ pc' = "wf_sleep"
    /\ UNCHANGED <<term, table, tty, blocked, locals, kernel, out, sigcont,
                   hist>>

\* line 304: sleep(1) returns, after a second or interrupted by a signal
WaitfgSleep ==
    /\ pc = "wf_sleep"
    /\ pc' = "wf_loop"
    /\ UNCHANGED <<term, table, tty, blocked, locals, kernel, out, sigcont,
                   hist>>

\* line 303, the test fails: leave the loop
WaitfgExit ==
    /\ pc = "wf_loop"
    /\ ~WaitfgCond
    /\ pc' = "wf_reclaim"
    /\ UNCHANGED <<term, table, tty, blocked, locals, kernel, out, sigcont,
                   hist>>

\* line 307: tcsetpgrp(shell_terminal, shell_pgid); waitfg and its caller
\* return
WaitfgReclaim ==
    /\ pc = "wf_reclaim"
    /\ tty' = tcsetpgrp(tty, ShellPid)
    /\ Return
    /\ UNCHANGED <<term, table, blocked, kernel, out, sigcont, hist>>

(* ------------------------------ do_bgfg -------------------------------- *)

\* line 315: fg or bg without an argument
BgfgNoArg(c) ==
    /\ pc = "read"
    /\ out' = <<"requires", 0, 0>>
    /\ Return
    /\ UNCHANGED <<term, table, tty, blocked, kernel, sigcont, hist>>

\* lines 317-325: the slot the argument resolves to
Resolve(arg) ==
    IF Head(arg) = "%" THEN getjobjid(jobs, Atoi(Tail(arg)))
    ELSE getjobpid(jobs, Atoi(arg))

\* the argument names a live job: a slot in use with that jid or that pgid
NamesLiveJob(arg) ==
    \E s \in Slots :
        /\ jobs[s].pid # 0
        /\ IF Head(arg) = "%" THEN jobs[s].jid = Atoi(Tail(arg))
           ELSE jobs[s].pid = Atoi(arg)

Live(arg) == IF NamesLiveJob(arg) THEN "yes" ELSE "no"

\* lines 317-325, the lookup returns NULL
BgfgNoSuch(c, arg) ==
    /\ pc = "read"
    /\ Resolve(arg) = NULL
    /\ out' = IF Head(arg) = "%" THEN <<"nosuchjob", 0, 0>>
              ELSE <<"nosuchproc", 0, 0>>
    /\ speclive' = Live(arg)
    /\ Return
    /\ UNCHANGED <<term, table, tty, blocked, kernel, sigcont, jids>>

\* lines 317-325, the lookup returns a slot
BgfgFound(c, arg) ==
    /\ pc = "read"
    /\ Resolve(arg) # NULL
    /\ job' = Resolve(arg)
    /\ cmd' = c
    /\ speclive' = Live(arg)
    /\ target' = IF NamesLiveJob(arg) /\ jobs[Resolve(arg)].state = ST
                 THEN jobs[Resolve(arg)].pid ELSE 0
    /\ pc' = "bf_kill"
    /\ UNCHANGED <<term, table, tty, blocked, bg, cmd_count, i,
                   group_leader_pid, pid, prev, prev_pipe_read, pipefd, wpid,
                   wjob, firstpid, added, early, kernel, out, sigcont, jids>>

\* line 327: kill(-(job->pid), SIGCONT)
BgfgKill ==
    /\ pc = "bf_kill"
    /\ sigcont' = Append(sigcont, jobs[job].pid)
    /\ proc' = ContGroup(jobs[job].pid)
    /\ speclive' = ""
    /\ pc' = "bf_state"
    /\ UNCHANGED <<term, table, tty, blocked, locals, nextpid, fails, openfds,
                   out, jids>>

\* lines 329-331: bg
BgfgBg ==
    /\ pc = "bf_state"
    /\ cmd = "bg"
    /\ jobs' = [jobs EXCEPT ![job].state = BG]
    /\ out' = <<"bgline", jobs[job].jid, jobs[job].pid>>
    /\ Return
    /\ UNCHANGED <<term, next_jid, tty, blocked, kernel, sigcont, hist>>

\* line 333: fg, job->state = FG
BgfgFg ==
    /\ pc = "bf_state"
    /\ cmd = "fg"
    /\ jobs' = [jobs EXCEPT ![job].state = FG]
    /\ pc' = "bf_call"
    /\ UNCHANGED <<term, next_jid, tty, blocked, locals, kernel, out, sigcont,
                   hist>>

\* line 334: waitfg(job->pid)
BgfgCall ==
    /\ pc = "bf_call"
    /\ wpid' = jobs[job].pid
    /\ pc' = "wf_tcset"
    /\ UNCHANGED <<term, table, tty, blocked, cmd, bg, cmd_count, i,
                   group_leader_pid, pid, prev, prev_pipe_read, pipefd, job,
                   wjob, firstpid, added, early, target, kernel, out, sigcont,
                   hist>>

(* --------------------------- specification ----------------------------- *)

Builtins == {"fg", "bg"}

Boot ==
    \/ BootStopped
    \/ BootForeground
    \/ Continued
    \/ BootSetpgid
    \/ BootTcsetpgrp
    \/ BootTcgetattr
    \/ BootInstall

Main ==
    \/ Prompt
    \/ EvalEmpty
    \/ EvalJobs
    \/ \E n \in 0..MaxStages, b \in BOOLEAN : EvalLaunch(n, b)
    \/ PipeFail
    \/ ForkFail
    \/ Fork
    \/ Parent
    \/ Addjob
    \/ PrintLaunch
    \/ WaitfgTcsetpgrp
    \/ WaitfgLookup
    \/ WaitfgTest
    \/ WaitfgSleep
    \/ WaitfgExit
    \/ WaitfgReclaim
    \/ \E c \in Builtins : BgfgNoArg(c)
    \/ \E c \in Builtins, arg \in ArgTexts : BgfgNoSuch(c, arg)
    \/ \E c \in Builtins, arg \in ArgTexts : BgfgFound(c, arg)
    \/ BgfgKill
    \/ BgfgBg
    \/ BgfgFg
    \/ BgfgCall

Children ==
    \E p \in Pids :
        \/ ChildSetpgid(p)
        \/ ChildExec(p)
        \/ ChildTerminate(p)
        \/ ChildStop(p)

Next == Boot \/ Main \/ Children \/ sigchld_handler

\* the shell and its children, the programs leaving the terminal's modes
\* alone (the shell never reads them after line 85)
Spec == Init /\ [][Next]_vars

TermNext == Next \/ \E p \in Pids : ChildTcsetattr(p)

\* the same, with programs that set the terminal's modes
TermSpec == Init /\ [][TermNext]_vars

\* every step of the main flow that does not wait for the user's next line
MainInternal ==
    \/ BootStopped
    \/ BootForeground
    \/ BootSetpgid
    \/ BootTcsetpgrp
    \/ BootTcgetattr
    \/ BootInstall
    \/ Prompt
    \/ PipeFail
    \/ ForkFail
    \/ Fork
    \/ Parent
    \/ Addjob
    \/ PrintLaunch
    \/ WaitfgTcsetpgrp
    \/ WaitfgLookup
    \/ WaitfgTest
    \/ WaitfgSleep
    \/ WaitfgExit
    \/ WaitfgReclaim
    \/ BgfgKill
    \/ BgfgBg
    \/ BgfgFg
    \/ BgfgCall

\* fair signal delivery: a pending SIGCHLD is delivered whenever it is not
\* blocked, and the shell is scheduled; the user and the children's programs
\* owe nothing
FairSpec ==
    Spec /\ SF_vars(sigchld_handler) /\ WF_vars(MainInternal)

(* ------------------------------ claims --------------------------------- *)

\* the positions of main before its loop
BootPcs == {"boot_fg", "boot_ttin", "boot_setpgid", "boot_tcset", "boot_ttou",
            "boot_attr", "boot_install"}

FGSlots == {s \in Slots : jobs[s].state = FG}
LiveSlots == {s \in Slots : jobs[s].pid # 0}
FGJobs == FGSlots \cap LiveSlots

\* C1: in every reachable state the number of job-table slots whose state
\* is FG is 0 or 1.
C1_AtMostOneFGSlot == Cardinality(FGSlots) <= 1

\* C2: whenever some job is in state FG the terminal's foreground group is
\* that job's pgid, and whenever no job is in state FG it is the shell's
\* pgid, in every reachable state of the main loop.
C2_TerminalMatchesFG ==
    pc \notin BootPcs =>
        /\ \A s \in FGJobs : tty = jobs[s].pid
        /\ FGJobs = {} => tty = ShellPid

\* C3: every time the main loop is about to print the prompt, the
\* terminal's foreground group is the shell's pgid.
C3_PromptOwnsTerminal == pc = "prompt" => tty = ShellPid

\* the reaper processes an event of the child p in this step
Reaps(p) ==
    \/ proc[p].st = "zombie" /\ proc'[p].st = "reaped"
    \/ proc[p].st = "stopped" /\ ~proc[p].rep /\ proc'[p].st = "stopped"
           /\ proc'[p].rep

\* C4: the reaper processes no event of a child of the pipeline that is
\* being built, and the termination event of the leader of a registered
\* job finds the job in the table.
C4_RegisteredBeforeReaped ==
    [][\A p \in Pids :
          Reaps(p) =>
              /\ ~(Building /\ proc[p].first = firstpid)
              /\ (proc[p].st = "zombie" /\ proc[p].reg)
                     => getjobpid(jobs, p) # NULL]_vars

\* the leader had terminated before addjob ran, the job was registered all
\* the same, and the reaper has since processed the event and cleared it
C4_Witness ==
    /\ early
    /\ proc[group_leader_pid].st = "reaped"
    /\ getjobpid(jobs, group_leader_pid) = NULL
    /\ jids # <<>>

\* C5: under fair signal delivery, whenever the leader of a job in the table
\* has terminated, the job's slot is eventually cleared.
C5_DeadLeaderCleared ==
    \A p \in Pids :
        (proc[p].st = "zombie" /\ getjobpid(jobs, p) # NULL)
            ~> (getjobpid(jobs, p) = NULL)

NoSuch == {"nosuchjob", "nosuchproc"}

\* C6: when the argument of fg or bg names no live job, the command prints
\* the no-such-job / no-such-process line, sends no signal, leaves every
\* slot as it was and returns to the prompt.
C6_NoLiveJobNoEffect ==
    [][speclive' = "no" =>
          /\ pc' = "prompt"
          /\ out'[1] \in NoSuch
          /\ sigcont' = <<>>
          /\ (pc = "read" => jobs' = jobs)]_vars

Execed == {"running", "stopped", "zombie"}

\* C7: by the time a child executes its program it is a member of the
\* process group whose pgid is the pid of the first child of its pipeline.
C7_OneGroupAtExec ==
    \A p \in Pids : proc[p].st \in Execed => proc[p].pgid = proc[p].first

\* the second stage has executed its program before the parent's setpgid
\* for it, and is in the first stage's group
C7_Witness ==
    /\ pc = "pp_parent"
    /\ i = 1
    /\ proc[pid].st \in Execed
    /\ proc[pid].first = firstpid
    /\ firstpid # pid
    /\ proc[pid].pgid = firstpid

InWaitfg == pc \in {"wf_tcset", "wf_lookup", "wf_loop", "wf_sleep", "wf_reclaim"}

\* C8: under fair signal delivery, once the leader of the job the
\* Foreground Controller waits for has terminated or stopped, the
\* controller returns and the shell reaches the prompt.
C8_WaitfgReturns ==
    (InWaitfg /\ wpid \in Pids /\ proc[wpid].st \in {"zombie", "stopped", "reaped"})
        ~> (pc = "prompt")

\* C9: any two distinct live jobs have different jids and different pgids.
C9_UniqueLiveIds ==
    \A s, t \in LiveSlots :
        s # t => jobs[s].jid # jobs[t].jid /\ jobs[s].pid # jobs[t].pid

\* two live jobs at the same time
C9_Witness ==
    /\ Cardinality(LiveSlots) >= 2
    /\ Len(jids) >= 2

\* C10: the jids of the jobs added over the shell's lifetime are strictly
\* increasing in the order of the adds, and the first is 1.
C10_MonotonicJid ==
    /\ \A a, b \in 1..Len(jids) : a < b => jids[a] < jids[b]
    /\ jids # <<>> => jids[1] = 1

\* a job was added, its slot was cleared, and a later job now lives in the
\* same slot
C10_Witness ==
    /\ Len(jids) >= 2
    /\ getjobjid(jobs, jids[1]) = NULL
    /\ jobs[1].pid # 0
    /\ jobs[1].jid = jids[Len(jids)]

LivePids == {jobs[s].pid : s \in LiveSlots}

\* the children whose termination the reaper observes in this step
Reaped == {p \in Pids : proc[p].st = "zombie" /\ proc'[p].st = "reaped"}

\* the children whose stop the reaper observes in this step
StopSeen == {p \in Pids : /\ proc[p].st = "stopped" /\ ~proc[p].rep
                          /\ proc'[p].st = "stopped" /\ proc'[p].rep}

\* C11: a slot in use is cleared only in a step of the reaper that observes
\* the termination of the child whose pid is the slot's pgid, and it is
\* cleared whole; a slot in use is never given another pgid; every step
\* other than add (a non-leader's termination, a stop event, fg, bg, jobs)
\* leaves the set of live jobs as it was.
C11_OnlyReaperClears ==
    [][/\ LivePids \ LivePids' \subseteq Reaped
       /\ \A s \in LiveSlots :
              \/ jobs'[s].pid = jobs[s].pid
              \/ jobs'[s] = clearjob /\ jobs[s].pid \in Reaped
       /\ pc # "pp_addjob" => LivePids' \subseteq LivePids]_vars

\* one pipeline of two stages was registered; the reaper has observed the
\* termination of its second stage and a stop of its leader, and the job is
\* still in the table
C11_Witness ==
    \E p, q \in Pids :
        /\ p # q
        /\ Len(jids) = 1
        /\ fails = 0
        /\ proc[q].st = "reaped"
        /\ proc[p].st = "stopped" /\ proc[p].rep
        /\ getjobpid(jobs, p) # NULL
        /\ jobs[getjobpid(jobs, p)].state = ST

\* the slots that hold the same job before and after the step, in
\* different states
Moved == {s \in LiveSlots : /\ jobs'[s].pid = jobs[s].pid
                            /\ jobs'[s].state # jobs[s].state}

\* C12: every change of the state of a live job is FG to ST or BG to ST in a
\* step of the reaper that observes a stop of the job's leader, ST to BG in
\* the state write of bg, or ST to FG or BG to FG in the state write of fg;
\* a job is created in FG or BG.
C12_ListedTransitions ==
    [][/\ \A s \in Moved :
              \/ /\ jobs[s].state \in {FG, BG} /\ jobs'[s].state = ST
                 /\ jobs[s].pid \in StopSeen
              \/ /\ jobs[s].state = ST /\ jobs'[s].state = BG
                 /\ pc = "bf_state" /\ cmd = "bg"
              \/ /\ jobs[s].state \in {ST, BG} /\ jobs'[s].state = FG
                 /\ pc = "bf_state" /\ cmd = "fg"
       /\ \A s \in LiveSlots' \ LiveSlots :
              pc = "pp_addjob" /\ jobs'[s].state \in {FG, BG}]_vars

\* a job that fg put in the foreground has been stopped: the reaper set its
\* state to ST and the Foreground Controller has left its loop
C12_Witness ==
    \E s \in LiveSlots :
        /\ jobs[s].state = ST
        /\ pc = "wf_reclaim"
        /\ cmd = "fg"
        /\ wpid = jobs[s].pid
        /\ proc[wpid].st = "stopped"

\* C13: when bg or fg is applied to a live Stopped job, the kill sends
\* SIGCONT to that job's process group and no member of the group stays
\* stopped; the state write sets that job's state to BG (bg) or FG (fg) and
\* changes no other slot; no step of bg changes the terminal's foreground
\* group; the Foreground Controller entered by fg makes the job's pgid the
\* terminal's foreground group; no other step of the command writes the
\* table.
C13_ResumeStopped ==
    [][(target # 0 /\ pc' # pc) =>
          /\ pc = "bf_kill" =>
                 /\ sigcont' = Append(sigcont, target)
                 /\ \A p \in Pids :
                        proc[p].pgid = target => proc'[p].st # "stopped"
          /\ pc = "bf_state" =>
                 /\ jobs[job].pid = target
                 /\ jobs' = [jobs EXCEPT ![job].state =
                                 IF cmd = "bg" THEN BG ELSE FG]
          /\ pc # "bf_state" => jobs' = jobs
          /\ cmd = "bg" => tty' = tty
          /\ pc = "wf_tcset" => tty' = target]_vars

\* C14: whenever the Foreground Controller returns, the terminal's modes
\* are the modes saved in shell_tmodes at bootstrap.
C14_ModesRestored ==
    [][(pc = "wf_reclaim" /\ pc' = "prompt") => tmodes' = shell_tmodes]_vars

\* C15: SIGCHLD is blocked only while the pipeline builder forks and
\* registers: it is not blocked at the prompt, while a line is read, in a
\* built-in or in the Foreground Controller, whatever path the last
\* process_pipeline returned by.
C15_BlockedOnlyInBuilder == blocked => Building

\* the positions of the main flow between resolving a job (the lookup of
\* fg/bg, the add of a background launch) and its last use of it (the kill,
\* the state write, the call of waitfg, the launch line)
ResolvedPcs == {"bf_kill", "bf_state", "bf_call", "pp_print"}

\* C16: the reaper processes no event while the main flow is between
\* resolving a job and its use of that job.
C16_NoReapWhileResolved ==
    [][Reaped \cup StopSeen # {} => pc \notin ResolvedPcs]_vars

\* C17: every SIGCONT that fg or bg sends is addressed to the pgid of a job
\* that is in the table when it is sent, never to process group 0.
C17_SigcontToLiveJob ==
    [][sigcont' # sigcont /\ sigcont' # <<>> =>
          /\ sigcont'[Len(sigcont')] # 0
          /\ sigcont'[Len(sigcont')] \in LivePids]_vars

\* C18: whenever process_pipeline has returned to the main loop, the shell
\* holds no open pipe descriptor.
C18_NoPipeEndsAtReturn == pc = "prompt" => openfds = {}

\* C19: the jid in the launch line of a background launch that registered
\* a job is the jid that add gave that job, a positive number.
C19_LaunchLineJid ==
    [][(pc = "pp_print" /\ pc' = "prompt" /\ added # 0) =>
          /\ out'[1] = "launch"
          /\ out'[2] = added
          /\ out'[2] > 0]_vars

\* the positions at which the shell calls tcsetpgrp
TcsetpgrpPcs == {"boot_tcset", "wf_tcset", "wf_reclaim"}

\* C20: whenever the shell is about to call tcsetpgrp its disposition for
\* SIGTTOU is "ignore", and the shell is never stopped by that call.
C20_TtouIgnoredAtTcsetpgrp ==
    /\ pc \in TcsetpgrpPcs => sigttou = "ign"
    /\ pc # "boot_ttou"

====
